---- MODULE Spec2Model ----
(***************************************************************************)
(* Model of the dashboards of src/home.py (Home overview) and              *)
(* src/product_usage.py (Free Trials product usage).                       *)
(*                                                                         *)
(* A dashboard session shows one page.  The date picker, the graph clicks  *)
(* and the warehouse (the row source the SQL queries read) are the         *)
(* environment; every Dash callback of the source is one action that reads *)
(* its Inputs, runs the whole function body and writes its Outputs.        *)
(*                                                                         *)
(* Values:                                                                 *)
(*   - an ISO-8601 string is a record [fmt, day]: fmt "date" is            *)
(*     "YYYY-MM-DD", fmt "ts" is "YYYY-MM-DDT00:00:00" (a serialized       *)
(*     timestamp), fmt "bad" is a string datetime.fromisoformat rejects;   *)
(*     day is the calendar day as a day number;                            *)
(*   - a Python value that may be None is a sequence of length <= 1;       *)
(*   - a Python dict is the sequence of its items [key, value] in          *)
(*     insertion order;                                                    *)
(*   - an f-string is the sequence of its pieces, "" is << >>.             *)
(***************************************************************************)
EXTENDS Integers, Sequences, FiniteSets, TLC

\* Calendar days 0..MaxDay can be picked and can carry warehouse records
\* in a dashboard session.
MaxDay == 2

\* Largest number of records in the warehouse of a dashboard session.
MaxRecords == 1

\* Calendar days 0..MaxDrillDay can be picked and can carry error records
\* in a drill-down run.
MaxDrillDay == 3

\* Largest number of error records in the warehouse of a drill-down run.
MaxErrors == 2

\* Largest number of usage records in the warehouse of a load of the
\* product usage page.
MaxUsage == 2

Days == 0..MaxDay

DrillDays == 0..MaxDrillDay

ErrorNames == {"ERR_A", "ERR_B"}

None == << >>

\* the result of a callback run that raises exc before any query is issued
Raise(exc) == [exc |-> exc, queries |-> << >>]

Some(v) == << v >>

(***************************************************************************)
(* ISO strings and dates                                                   *)
(***************************************************************************)
IsoDate(d) == [fmt |-> "date", day |-> d]

IsoTimestamp(d) == [fmt |-> "ts", day |-> d]

BadIso == [fmt |-> "bad", day |-> 0]

\* datetime.fromisoformat(s) raises ValueError on a malformed string.
ParseFails_Never(s) == FALSE

ParseFails(s) == s.fmt = "bad"

\* datetime.fromisoformat(s).date() as a day number.
fromisoformat(s) == s.day

\* x.strftime("%Y-%m-%d")
strftime(d) == IsoDate(d)

\* Python's < on two ISO strings of the shapes above: "YYYY-MM-DD" is a
\* proper prefix of "YYYY-MM-DDT00:00:00".
StrLess(a, b) ==
    \/ a.day < b.day
    \/ a.day = b.day /\ a.fmt = "date" /\ b.fmt = "ts"

(***************************************************************************)
(* Python dicts                                                            *)
(***************************************************************************)
Item(k, v) == [key |-> k, value |-> v]

DictKeys(d) == {d[i].key : i \in DOMAIN d}

KeyList(d) == [i \in DOMAIN d |-> d[i].key]

ValueList(d) == [i \in DOMAIN d |-> d[i].value]

DictGet(d, k) == d[CHOOSE i \in DOMAIN d : d[i].key = k].value

SeqToSet(s) == {s[i] : i \in DOMAIN s}

RECURSIVE SortedStrings(_)
\* sorted(K) of a set of distinct ISO strings
SortedStrings(K) ==
    IF K = {} THEN << >>
    ELSE LET m == CHOOSE k \in K : \A o \in K \ {k} : StrLess(k, o)
         IN  << m >> \o SortedStrings(K \ {m})

RECURSIVE SortedInts(_)
\* sorted(K) of a set of integers
SortedInts(K) ==
    IF K = {} THEN << >>
    ELSE LET m == CHOOSE k \in K : \A o \in K : k <= o
         IN  << m >> \o SortedInts(K \ {m})

\* Counter(l) as a dict: one item per distinct element, with its number of
\* occurrences (the callers sort the items by key right after).
Counter(l) ==
    LET ks == SortedStrings(SeqToSet(l))
    IN  [i \in DOMAIN ks |->
            Item(ks[i], Cardinality({j \in DOMAIN l : l[j] = ks[i]}))]

\* {k: d[k] for k in sorted(d)}, also dict(OrderedDict(sorted(d.items())))
SortedDict(d) ==
    LET ks == SortedStrings(DictKeys(d))
    IN  [i \in DOMAIN ks |-> Item(ks[i], DictGet(d, ks[i]))]

\* a | b: the keys of a keep their position and take b's value when b has
\* the key; the keys only b has follow in b's order.
DictUnion(a, b) ==
    LET upd == [i \in DOMAIN a |->
                  IF a[i].key \in DictKeys(b)
                  THEN Item(a[i].key, DictGet(b, a[i].key)) ELSE a[i]]
        new == SelectSeq(b, LAMBDA it : it.key \notin DictKeys(a))
    IN  upd \o new

\* dict.fromkeys(keys, v)
FromKeys(keys, v) == [i \in DOMAIN keys |-> Item(keys[i], v)]

(***************************************************************************)
(* The warehouse.  A record of the Home page is an error activity          *)
(* (replication.analytics_user_activity) or the start of a free trial      *)
(* (replication.analytics_organization_subscription_type).  Its timestamp  *)
(* is the calendar day and whether it is exactly 00:00:00 of that day.     *)
(***************************************************************************)
ErrorRecords(D) ==
    [kind : {"error"}, day : D, midnight : BOOLEAN, activity : ErrorNames]

TrialRecords ==
    [kind : {"trial"}, day : Days, midnight : {FALSE}, activity : {""}]

HomeRecords == ErrorRecords(Days) \cup TrialRecords

RECURSIVE SetsUpTo(_, _)
\* the subsets of U with at most n elements
SetsUpTo(U, n) ==
    IF n = 0 THEN {{}}
    ELSE LET smaller == SetsUpTo(U, n - 1)
         IN  smaller \cup {s \cup {u} : s \in smaller, u \in U}

RECURSIVE SetToSeq(_)
\* the rows of one day in the order the database returns them (ORDER BY
\* names the day only)
SetToSeq(S) ==
    IF S = {} THEN << >>
    ELSE LET x == CHOOSE y \in S : TRUE
         IN  << x >> \o SetToSeq(S \ {x})

RECURSIVE Flatten(_)
Flatten(ss) == IF ss = << >> THEN << >> ELSE Head(ss) \o Flatten(Tail(ss))

\* t BETWEEN lo AND hi, lo and hi being 00:00:00 of the days lo and hi
Between(r, lo, hi) ==
    /\ r.day >= lo
    /\ r.day < hi \/ (r.day = hi /\ r.midnight)

\* t > 00:00:00 of day s
After(r, s) == r.day > s \/ (r.day = s /\ ~r.midnight)

\* generate_series(lo, hi, '1 day'): the days lo, lo+1, .. not after hi
GenerateSeries(lo, hi) == [i \in 1..(hi - lo + 1) |-> lo + (i - 1)]

(***************************************************************************)
(* Previous-period start, as each callback computes it                     *)
(***************************************************************************)
\* update_new_trials_graph
NewTrialsDaysOfPeriod(start_date, end_date) ==
    fromisoformat(end_date) - fromisoformat(start_date) - 1

NewTrialsIntervalStart(start_date, end_date) ==
    fromisoformat(start_date) - NewTrialsDaysOfPeriod(start_date, end_date)

\* update_errors_graph
ErrorsDaysOfPeriod(start_date, end_date) ==
    fromisoformat(end_date) - fromisoformat(start_date) - 1

ErrorsIntervalStart(start_date, end_date) ==
    fromisoformat(start_date) - ErrorsDaysOfPeriod(start_date, end_date)

\* display_errors_click_data_graph
PeriodDaysOfPeriod(start_date, end_date) ==
    fromisoformat(end_date) - fromisoformat(start_date) - 1

PeriodIntervalStart_Inclusive(start_date, end_date) ==
    fromisoformat(start_date)
        - (fromisoformat(end_date) - fromisoformat(start_date))

PeriodIntervalStart(start_date, end_date) ==
    fromisoformat(start_date) - PeriodDaysOfPeriod(start_date, end_date)

(***************************************************************************)
(* update_new_trials_graph                                                 *)
(***************************************************************************)
\* The query: one row per day of generate_series(lo, hi) with the number of
\* trials that started that day.
NewTrialsQuery(wh, lo, hi) ==
    LET days == GenerateSeries(lo, hi)
    IN  [i \in DOMAIN days |->
            [day |-> days[i],
             new_trials |-> Cardinality({r \in wh :
                 /\ r.kind = "trial"
                 /\ Between(r, lo, hi)
                 /\ r.day = days[i]})]]

\* new_trials[: ((len(new_trials) // 2) + 1)]
PreviousPeriodSlice(rows) ==
    LET stop == (Len(rows) \div 2) + 1
    IN  SubSeq(rows, 1, IF stop < Len(rows) THEN stop ELSE Len(rows))

\* the rows after those of the previous period:
\* new_trials[(len(new_trials) // 2) + 1 :]
CurrentPeriodSlice_AfterPrevious(rows) ==
    SubSeq(rows, (Len(rows) \div 2) + 2, Len(rows))

\* new_trials[(len(new_trials) // 2) :]
CurrentPeriodSlice(rows) == SubSeq(rows, (Len(rows) \div 2) + 1, Len(rows))

NoFigure == [shown |-> FALSE]

update_new_trials_graph(wh, start_date, end_date) ==
    IF ParseFails(end_date) \/ ParseFails(start_date)
    THEN Raise("ValueError")
    ELSE LET interval_start_date == NewTrialsIntervalStart(start_date, end_date)
             new_trials == NewTrialsQuery(wh, interval_start_date,
                                          fromisoformat(end_date))
         IN  [exc |-> "none",
              queries |-> << [start_date |-> interval_start_date,
                              end_date |-> fromisoformat(end_date)] >>,
              shown |-> TRUE,
              interval_start_date |-> interval_start_date,
              new_trials |-> new_trials,
              previous_period |-> PreviousPeriodSlice(new_trials),
              current_period |-> CurrentPeriodSlice(new_trials)]

(***************************************************************************)
(* update_errors_graph                                                     *)
(***************************************************************************)
\* CASE WHEN act.created > :start_date THEN 1
\*      WHEN act.created <= :start_date THEN 0 END
IntervalVar(r, s) == IF After(r, s) THEN 1 ELSE 0

\* a row of the result for an error record, as the figure carries it (the
\* day column is serialized as a timestamp string)
ErrorRow(r, s) ==
    [day |-> IsoTimestamp(r.day),
     activity |-> r.activity,
     interval_var |-> Some(IntervalVar(r, s)),
     date |-> Some([day |-> r.day, midnight |-> r.midnight])]

\* the row of a day without errors: LEFT JOIN leaves the columns NULL,
\* coalesce(act_usr.activity, '') makes the activity ''
EmptyDayRow(d) ==
    [day |-> IsoTimestamp(d), activity |-> "", interval_var |-> None,
     date |-> None]

ErrorsQuery(wh, lo, s, hi) ==
    LET days == GenerateSeries(lo, hi)
        onDay(d) == {r \in wh :
                        r.kind = "error" /\ Between(r, lo, hi) /\ r.day = d}
        rowsOf(d) == IF onDay(d) = {} THEN << EmptyDayRow(d) >>
                     ELSE LET rs == SetToSeq(onDay(d))
                          IN  [i \in DOMAIN rs |-> ErrorRow(rs[i], s)]
    IN  Flatten([i \in DOMAIN days |-> rowsOf(days[i])])

RECURSIVE FirstOccurrences(_, _)
\* the distinct elements of l in the order of their first occurrence
FirstOccurrences(l, seen) ==
    IF l = << >> THEN << >>
    ELSE IF Head(l) \in seen THEN FirstOccurrences(Tail(l), seen)
    ELSE << Head(l) >> \o FirstOccurrences(Tail(l), seen \cup {Head(l)})

RECURSIVE SortByCountDesc(_)
\* sorted(items, key=lambda kv: kv[1], reverse=True): stable
SortByCountDesc(items) ==
    IF items = << >> THEN << >>
    ELSE LET i == CHOOSE j \in DOMAIN items :
                    /\ \A k \in DOMAIN items : items[k].value <= items[j].value
                    /\ \A k \in 1..(j - 1) : items[k].value < items[j].value
             rest == [k \in 1..(Len(items) - 1) |->
                        IF k < i THEN items[k] ELSE items[k + 1]]
         IN  << items[i] >> \o SortByCountDesc(rest)

\* counter and counts of update_errors_graph, counting the rows of both
\* periods and of the days without errors
ErrorCounts_AllRows(errors_activities) ==
    LET names == FirstOccurrences([i \in DOMAIN errors_activities |->
                                      errors_activities[i].activity], {})
        counter == [i \in DOMAIN names |->
                       Item(names[i],
                            Cardinality({j \in DOMAIN errors_activities :
                                errors_activities[j].activity = names[i]}))]
    IN  SortByCountDesc(counter)

\* counter and counts of update_errors_graph
ErrorCounts(errors_activities) ==
    LET cur == SelectSeq(errors_activities,
                         LAMBDA act : act.interval_var = Some(1))
        names == FirstOccurrences([i \in DOMAIN cur |-> cur[i].activity], {})
        counter == [i \in DOMAIN names |->
                      Item(names[i],
                           Cardinality({j \in DOMAIN cur :
                                           cur[j].activity = names[i]}))]
    IN  SortByCountDesc(counter)

update_errors_graph(wh, start_date, end_date) ==
    IF ParseFails(end_date) \/ ParseFails(start_date)
    THEN Raise("ValueError")
    ELSE LET interval_start_date == ErrorsIntervalStart(start_date, end_date)
             errors_activities ==
                 ErrorsQuery(wh, interval_start_date,
                             fromisoformat(start_date), fromisoformat(end_date))
             counts == ErrorCounts(errors_activities)
         IN  [exc |-> "none",
              queries |-> << [start_date_int |-> interval_start_date,
                              start_date |-> fromisoformat(start_date),
                              end_date |-> fromisoformat(end_date)] >>,
              shown |-> TRUE,
              start_date_int |-> interval_start_date,
              start_date |-> fromisoformat(start_date),
              end_date |-> fromisoformat(end_date),
              bars |-> [i \in DOMAIN counts |->
                  [y |-> counts[i].key,
                   x |-> counts[i].value,
                   customdata |-> SelectSeq(errors_activities,
                       LAMBDA act : act.activity = counts[i].key)]]]

(***************************************************************************)
(* Click events and the callback context                                   *)
(***************************************************************************)
\* clickData of a graph: None, the empty dict, a dict without "points", or
\* a dict with a list of points
NoClick == [shape |-> "None", points |-> << >>]

EmptyDictClick == [shape |-> "{}", points |-> << >>]

NoPointsClick == [shape |-> "no_points", points |-> << >>]

PointsClick(pts) == [shape |-> "points", points |-> pts]

\* Python truth value of a clickData
Truthy(cd) == cd.shape \notin {"None", "{}"}

\* the exception of cd["points"][0], "none" when there is a first point
FirstPointExc(cd) ==
    IF cd.shape = "no_points" THEN "KeyError"
    ELSE IF cd.points = << >> THEN "IndexError"
    ELSE "none"

\* callback_context.triggered is a list of [id, prop]
PropId(id, prop) == [id |-> id, prop |-> prop]

\* callback_context.triggered_id: the id of the first triggering property,
\* None on the initial call
TriggeredId(triggered) ==
    IF triggered = << >> THEN None ELSE Some(triggered[1].id)

\* callback_context.triggered_prop_ids
TriggeredPropIds(triggered) == SeqToSet(triggered)

HomeDatePicker == "home-global-datepicker"

ErrorsGraphId == "home-errors-graph"

DateTrigger(picker) ==
    << PropId(picker, "start_date"), PropId(picker, "end_date") >>

ClickTrigger(graph) == << PropId(graph, "clickData") >>

(***************************************************************************)
(* display_errors_click_data                                               *)
(***************************************************************************)
\* [act for act in activities if act["interval_var"] == 1]
CurrentPeriodRows_All(activities) == activities

CurrentPeriodRows(activities) ==
    SelectSeq(activities, LAMBDA act : act.interval_var = Some(1))

display_errors_click_data(fail_click_data, triggered) ==
    IF /\ Truthy(fail_click_data)
       /\ PropId(ErrorsGraphId, "clickData") \in TriggeredPropIds(triggered)
    THEN IF FirstPointExc(fail_click_data) # "none"
         THEN Raise(FirstPointExc(fail_click_data))
         ELSE LET activities == fail_click_data.points[1].customdata
              IN  IF activities = << >> THEN Raise("IndexError")
                  ELSE [exc |-> "none",
                        queries |-> << >>,
                        data |-> CurrentPeriodRows(activities),
                        heading |-> << "Error: ", activities[1].activity >>]
    ELSE [exc |-> "none", queries |-> << >>, data |-> << >>, heading |-> << >>]

(***************************************************************************)
(* display_errors_click_data_graph                                         *)
(***************************************************************************)
\* dict(Counter([act["day"] for act in activities
\*               if act["interval_var"] == v])), sorted by key
DayCounts(activities, v) ==
    LET sel == SelectSeq(activities, LAMBDA act : act.interval_var = Some(v))
    IN  SortedDict(Counter([i \in DOMAIN sel |-> sel[i].day]))

\* The missing-day fill: d is the list of dates (first bound, the days of
\* the keys of counts, last bound); the days from d[0] up to but not
\* including d[-1] that are not in d get the value 0.
FillMissing_AllDays(counts, first, last) ==
    LET ks == KeyList(counts)
        d == << first >> \o [i \in DOMAIN ks |-> fromisoformat(ks[i])]
                \o << last >>
        date_set == {d[1] + x : x \in 0..((d[Len(d)] - d[1]) - 1)}
        missing == SortedInts(date_set)
        missing_keys == [i \in DOMAIN missing |-> strftime(missing[i])]
    IN  SortedDict(DictUnion(counts, FromKeys(missing_keys, 0)))

FillMissing_ByLength(counts, first, last) ==
    LET ks == KeyList(counts)
        d == << first >> \o [i \in DOMAIN ks |-> fromisoformat(ks[i])]
                \o << last >>
        date_set == {d[1] + x : x \in 0..(Len(d) - 1)}
        missing == SortedInts(date_set \ SeqToSet(d))
        missing_keys == [i \in DOMAIN missing |-> strftime(missing[i])]
    IN  SortedDict(DictUnion(counts, FromKeys(missing_keys, 0)))

FillMissing(counts, first, last) ==
    LET ks == KeyList(counts)
        d == << first >> \o [i \in DOMAIN ks |-> fromisoformat(ks[i])]
                \o << last >>
        date_set == {d[1] + x : x \in 0..((d[Len(d)] - d[1]) - 1)}
        missing == SortedInts(date_set \ SeqToSet(d))
        missing_keys == [i \in DOMAIN missing |-> strftime(missing[i])]
    IN  SortedDict(DictUnion(counts, FromKeys(missing_keys, 0)))

\* "delete first date from current dict and add it into prev dict"
\* next(iter(..)) raises StopIteration on an empty dict.
MoveFirstToPrev(counts_prev, counts_current) ==
    [prev |-> DictUnion(counts_prev, << counts_current[1] >>),
     current |-> Tail(counts_current)]

\* go.Figure(), ""
EmptyPeriodGraph ==
    [exc |-> "none", queries |-> << >>, shown |-> FALSE, heading |-> << >>]

\* the guard of display_errors_click_data_graph
ClickedOnErrorsGraph_NoTrigger(fail_click_data, triggered) ==
    Truthy(fail_click_data)

ClickedOnErrorsGraph(fail_click_data, triggered) ==
    /\ Truthy(fail_click_data)
    /\ TriggeredId(triggered) = Some(ErrorsGraphId)

display_errors_click_data_graph(fail_click_data, start_date, end_date, triggered) ==
    IF ClickedOnErrorsGraph(fail_click_data, triggered)
    THEN IF FirstPointExc(fail_click_data) # "none"
         THEN Raise(FirstPointExc(fail_click_data))
         ELSE LET activities == fail_click_data.points[1].customdata
              IN
         IF activities = << >> THEN Raise("IndexError")
         ELSE IF ParseFails(end_date) \/ ParseFails(start_date)
         THEN Raise("ValueError")
         ELSE LET s == fromisoformat(start_date)
                  e == fromisoformat(end_date)
                  interval_start == PeriodIntervalStart(start_date, end_date)
                  filled_current ==
                      FillMissing(DayCounts(activities, 1), s - 1, e)
                  filled_prev ==
                      FillMissing(DayCounts(activities, 0), interval_start, s)
              IN
         IF filled_current = << >> THEN Raise("StopIteration")
         ELSE LET moved == MoveFirstToPrev(filled_prev, filled_current)
              IN  [exc |-> "none",
                   queries |-> << >>,
                   shown |-> TRUE,
                   heading |-> << "Error: ", activities[1].activity >>,
                   interval_start |-> interval_start,
                   filled_current |-> filled_current,
                   filled_prev |-> filled_prev,
                   counts_prev |-> moved.prev,
                   counts_current |-> moved.current,
                   previous_trace |->
                       [x |-> KeyList(moved.current),
                        y |-> ValueList(moved.prev),
                        text |-> [i \in DOMAIN moved.prev |->
                                     fromisoformat(moved.prev[i].key)]],
                   current_trace |->
                       [x |-> KeyList(moved.current),
                        y |-> ValueList(moved.current),
                        text |-> [i \in DOMAIN moved.current |->
                                     fromisoformat(moved.current[i].key)]]]
    ELSE EmptyPeriodGraph

(***************************************************************************)
(* The Free Trials product usage page (src/product_usage.py)               *)
(***************************************************************************)
\* A usage record is one user's relevant activity during a free trial: the
\* product (split_part(act.activity, '_', 1)), the day of the trial
\* (day_nr) and the organization.  The warehouse of this page holds the
\* activities the WHERE clauses select for the picked range.
Products == {"EXPORT", "LEGACY"}

UsageDayNrs == {0, 13, 14}

Orgs == {"org1", "org2"}

UsageRecords ==
    [kind : {"usage"}, day_nr : UsageDayNrs, product : Products, org : Orgs]

PRODUCT_LIST == << "BCS", "GRABBER", "EXPORT", "VR" >>

PRODUCT_LABELS ==
    [p \in {"BCS", "GRABBER", "EXPORT", "VR"} |->
        CASE p = "BCS" -> "BCS"
          [] p = "GRABBER" -> "Grabber"
          [] p = "EXPORT" -> "Dashboard"
          [] p = "VR" -> "VR"]

\* The module-level names of home.py and product_usage.py are objects every
\* callback invocation of the process shares.
VARIABLE module_level

\* the values the module-level assignments give them at import
Imported ==
    [home |-> [PATH |-> "/", SNAPADDY_COLORS |-> "snapaddy_colormap"],
     product_usage |-> [PATH |-> "/dashboards/trials_product_usage",
                        PRODUCT_LIST |-> PRODUCT_LIST,
                        PRODUCT_LABELS |-> PRODUCT_LABELS]]

\* PRODUCT_LABELS.get(product, default)
ProductLabel(product, default) ==
    LET labels == module_level.product_usage.PRODUCT_LABELS
    IN  IF product \in DOMAIN labels THEN labels[product] ELSE default

\* the products p with: p in PRODUCT_LIST
Listed == SeqToSet(module_level.product_usage.PRODUCT_LIST)

\* the product names in Python's string order
NameOrder == << "BCS", "EXPORT", "GRABBER", "LEGACY", "VR" >>

NameRank(n) == CHOOSE i \in DOMAIN NameOrder : NameOrder[i] = n

RECURSIVE SortedNames(_)
\* sorted(K) of a set of product names
SortedNames(K) ==
    IF K = {} THEN << >>
    ELSE LET m == CHOOSE k \in K : \A o \in K : NameRank(k) <= NameRank(o)
         IN  << m >> \o SortedNames(K \ {m})

\* the trial has 14 days: rows with day_nr < 14 are kept
TrialDays == 14

\* days = list(range(1, 15))
TrialDayList == [i \in 1..TrialDays |-> i]

ProductsGraphId == "free-trials-products-products-graph"

UsageDatePicker == "free-trials-products-global-datepicker"

\* The query of update_product_graph: GROUP BY day_nr, product_name with
\* count(distinct(usr.user_id)), ORDER BY day_nr.
ProductUsageQuery(wh) ==
    LET groups == {<< r.day_nr, r.product >> : r \in {u \in wh : u.kind = "usage"}}
        dayNrs == SortedInts({g[1] : g \in groups})
        rowsOf(n) ==
            LET ps == SortedNames({g[2] : g \in {h \in groups : h[1] = n}})
            IN  [i \in DOMAIN ps |->
                    [day_nr |-> n,
                     product_name |-> ps[i],
                     act_count |-> Cardinality({r \in wh :
                         /\ r.kind = "usage"
                         /\ r.day_nr = n
                         /\ r.product = ps[i]})]]
    IN  Flatten([i \in DOMAIN dayNrs |-> rowsOf(dayNrs[i])])

\* the rows kept (day_nr < 14) with day_nr offset by one
ShiftedTrialRows_NoOffset(rows) ==
    SelectSeq(rows, LAMBDA row : row.day_nr < TrialDays)

\* the rows of the trial days only (0 <= day_nr < 14), offset by one
ShiftedTrialRows_TrialDaysOnly(rows) ==
    LET kept == SelectSeq(rows,
                    LAMBDA row : 0 <= row.day_nr /\ row.day_nr < TrialDays)
    IN  [i \in DOMAIN kept |-> [kept[i] EXCEPT !.day_nr = @ + 1]]

ShiftedTrialRows(rows) ==
    LET kept == SelectSeq(rows, LAMBDA row : row.day_nr < TrialDays)
    IN  [i \in DOMAIN kept |-> [kept[i] EXCEPT !.day_nr = @ + 1]]

\* The fetched records after the offset: the filtered list holds the dicts
\* the row source returned, and row["day_nr"] += 1 assigns to those dicts.
FetchedAfterOffset(rows) ==
    [i \in DOMAIN rows |->
        IF rows[i].day_nr < TrialDays THEN [rows[i] EXCEPT !.day_nr = @ + 1]
        ELSE rows[i]]

\* {item["day_nr"]: item["act_count"] for item in rows if ..}.get(day, 0)
DayToCount(rows, product, day) ==
    LET hits == {i \in DOMAIN rows :
                    rows[i].product_name = product /\ rows[i].day_nr = day}
    IN  IF hits = {} THEN 0
        ELSE rows[CHOOSE i \in hits : \A j \in hits : j <= i].act_count

update_product_graph(wh, start_date, end_date) ==
    IF ParseFails(start_date) \/ ParseFails(end_date)
    THEN Raise("ValueError")
    ELSE LET fetched == ProductUsageQuery(wh)
             trial_products == ShiftedTrialRows(fetched)
             products_with_activities ==
                 SortedNames({trial_products[i].product_name :
                                 i \in DOMAIN trial_products})
             traceOf(product) ==
                 LET label == ProductLabel(product, product)
                 IN  [name |-> label,
                      legendgroup |-> product,
                      x |-> TrialDayList,
                      y |-> [d \in DOMAIN TrialDayList |->
                                DayToCount(trial_products, product,
                                           TrialDayList[d])],
                      customdata |-> [d \in DOMAIN TrialDayList |->
                                << product, label, TrialDayList[d] >>]]
         IN  [exc |-> "none",
              queries |-> << [start_date |-> fromisoformat(start_date),
                              end_date |-> fromisoformat(end_date)] >>,
              shown |-> TRUE,
              fetched |-> fetched,
              records |-> FetchedAfterOffset(fetched),
              traces |-> [i \in DOMAIN products_with_activities |->
                             traceOf(products_with_activities[i])]]

\* The query of display_product_usage_click_data: the organizations with
\* activity of the product on the trial day, with their number of users.
ProductCustomersQuery(wh, product_name, day_nr) ==
    LET hit == {r \in wh : /\ r.kind = "usage"
                           /\ r.product = product_name
                           /\ r.day_nr = day_nr}
        orgs == SetToSeq({r.org : r \in hit})
    IN  [i \in DOMAIN orgs |->
            [org_name |-> orgs[i],
             user_count |-> Cardinality({r \in hit : r.org = orgs[i]})]]

\* a point of the clickData of a bar: plotly reports x, y and customdata;
\* "data" (the trace) is absent
BarPoint(trace, d) ==
    [data |-> None,
     customdata |-> Some(trace.customdata[d]),
     x |-> Some(trace.x[d]),
     y |-> Some(trace.y[d])]

\* int(day)
IntOf(day) == day

\* "day_nr": day - 1, the day_nr the drill-down query selects for the
\* displayed day
QueriedDayNr_Displayed(day) == day

QueriedDayNr(day) == day - 1

\* if not point.get("y"): the value is missing or 0
NoActiveUsers_MissingOnly(point) == point.y = None

NoActiveUsers(point) == point.y = None \/ point.y = Some(0)

display_product_usage_click_data(wh, product_click_data, start_date, end_date, triggered) ==
    LET empty == [exc |-> "none", queries |-> << >>, data |-> << >>,
                  heading |-> << >>]
    IN
    IF \/ ~Truthy(product_click_data)
       \/ TriggeredId(triggered) # Some(ProductsGraphId)
    THEN empty
    ELSE IF FirstPointExc(product_click_data) # "none"
    THEN Raise(FirstPointExc(product_click_data))
    ELSE LET point == product_click_data.points[1]
             \* point.get("customdata") or []
             customdata == IF point.customdata = None THEN << >>
                           ELSE point.customdata[1]
             \* trace_data.get("legendgroup") or (customdata[0] if ..)
             legendgroup == IF point.data = None THEN None
                            ELSE point.data[1].legendgroup
             product == IF legendgroup # None /\ legendgroup # Some("")
                        THEN legendgroup
                        ELSE IF customdata # << >> THEN Some(customdata[1])
                        ELSE None
             day == IF point.x # None THEN point.x
                    ELSE IF Len(customdata) >= 3 THEN Some(customdata[3])
                    ELSE None
         IN
    IF product = None \/ product = Some("") THEN empty
    ELSE IF day = None THEN empty
    ELSE LET d == IntOf(day[1])
             product_label ==
                 ProductLabel(product[1],
                     IF Len(customdata) >= 2 THEN customdata[2]
                     ELSE product[1])
             heading == << "Product: ", product_label, " - Day ", d >>
         IN
    IF NoActiveUsers(point)
    THEN [exc |-> "none", queries |-> << >>, data |-> << >>,
          heading |-> heading \o << " (no active users)" >>]
    ELSE IF ParseFails(start_date) \/ ParseFails(end_date)
    THEN Raise("ValueError")
    ELSE [exc |-> "none",
          queries |-> << [product_name |-> product[1],
                          day_nr |-> QueriedDayNr(d)] >>,
          data |-> ProductCustomersQuery(wh, product[1], QueriedDayNr(d)),
          heading |-> heading]

(***************************************************************************)
(* update_activity_graph                                                   *)
(***************************************************************************)
\* act.activity of a usage record; split_part(act.activity, '_', 1) is its
\* product.  Each product has one relevant trial activity here.
ActivityOf(product) ==
    IF product = "EXPORT" THEN "EXPORT_CSV" ELSE "LEGACY_SYNC"

\* split_part(act.activity, '_', 1)
SplitPart(activity) == IF activity = "EXPORT_CSV" THEN "EXPORT" ELSE "LEGACY"

\* sorted(K) of a set of activity names
SortedActivities(K) ==
    LET ps == SortedNames({SplitPart(a) : a \in K})
    IN  [i \in DOMAIN ps |-> ActivityOf(ps[i])]

\* The query of update_activity_graph: GROUP BY day_nr, act.activity with
\* count(*), ORDER BY day_nr.
TrialActivitiesQuery(wh) ==
    LET usage == {u \in wh : u.kind = "usage"}
        dayNrs == SortedInts({u.day_nr : u \in usage})
        rowsOf(n) ==
            LET as == SortedActivities({ActivityOf(u.product) :
                                           u \in {v \in usage : v.day_nr = n}})
            IN  [i \in DOMAIN as |->
                    [day_nr |-> n,
                     activity |-> as[i],
                     act_count |-> Cardinality({u \in usage :
                         /\ u.day_nr = n
                         /\ ActivityOf(u.product) = as[i]})]]
    IN  Flatten([i \in DOMAIN dayNrs |-> rowsOf(dayNrs[i])])

\* {act["day_nr"]: act["act_count"] for act in rows if ..}.get(day, 0)
ActivityDayToCount(rows, activity, day) ==
    LET hits == {i \in DOMAIN rows :
                    rows[i].activity = activity /\ rows[i].day_nr = day}
    IN  IF hits = {} THEN 0
        ELSE rows[CHOOSE i \in hits : \A j \in hits : j <= i].act_count

update_activity_graph(wh, start_date, end_date) ==
    IF ParseFails(start_date) \/ ParseFails(end_date)
    THEN Raise("ValueError")
    ELSE LET fetched == TrialActivitiesQuery(wh)
             trial_activities == ShiftedTrialRows(fetched)
             distinct_activities ==
                 SortedActivities({trial_activities[i].activity :
                                      i \in DOMAIN trial_activities})
             traceOf(activity) ==
                 [name |-> activity,
                  x |-> TrialDayList,
                  y |-> [d \in DOMAIN TrialDayList |->
                            ActivityDayToCount(trial_activities, activity,
                                               TrialDayList[d])]]
         IN  [exc |-> "none",
              queries |-> << [start_date |-> fromisoformat(start_date),
                              end_date |-> fromisoformat(end_date)] >>,
              shown |-> TRUE,
              fetched |-> fetched,
              records |-> FetchedAfterOffset(fetched),
              traces |-> [i \in DOMAIN distinct_activities |->
                             traceOf(distinct_activities[i])]]

(***************************************************************************)
(* update_activities_by_products_graph                                     *)
(***************************************************************************)
RECURSIVE SortByCountAsc(_)
\* list.sort(key=product_count): ascending and stable
SortByCountAsc(items) ==
    IF items = << >> THEN << >>
    ELSE LET i == CHOOSE j \in DOMAIN items :
                    /\ \A k \in DOMAIN items : items[j].value <= items[k].value
                    /\ \A k \in 1..(j - 1) : items[j].value < items[k].value
             rest == [k \in 1..(Len(items) - 1) |->
                        IF k < i THEN items[k] ELSE items[k + 1]]
         IN  << items[i] >> \o SortByCountAsc(rest)

RECURSIVE Sum(_)
\* sum(l)
Sum(l) == IF l = << >> THEN 0 ELSE Head(l) + Sum(Tail(l))

\* The query: GROUP BY product with count(..), ORDER BY product_count DESC.
ProductCountsQuery(wh) ==
    LET usage == {u \in wh : u.kind = "usage"}
        ps == SortedNames({u.product : u \in usage})
    IN  SortByCountDesc([i \in DOMAIN ps |->
            Item(ps[i], Cardinality({u \in usage : u.product = ps[i]}))])

\* product_counts_filtered.append({"product": "OTHER", ..}), skipped here
\* when no activity belongs to another product
WithOther_WhenPositive(listed, other_act_sum) ==
    IF other_act_sum > 0 THEN Append(listed, Item("OTHER", other_act_sum))
    ELSE listed

WithOther(listed, other_act_sum) ==
    Append(listed, Item("OTHER", other_act_sum))

update_activities_by_products_graph(wh, start_date, end_date) ==
    IF ParseFails(start_date) \/ ParseFails(end_date)
    THEN Raise("ValueError")
    ELSE LET product_counts == ProductCountsQuery(wh)
             listed == SelectSeq(product_counts,
                           LAMBDA item : item.key \in Listed)
             others == SelectSeq(product_counts,
                           LAMBDA item : item.key \notin Listed)
             other_act_sum == Sum(ValueList(others))
             product_counts_filtered ==
                 SortByCountAsc(WithOther(listed, other_act_sum))
         IN  [exc |-> "none",
              queries |-> << [start_date |-> fromisoformat(start_date),
                              end_date |-> fromisoformat(end_date)] >>,
              shown |-> TRUE,
              x |-> ValueList(product_counts_filtered),
              y |-> KeyList(product_counts_filtered)]

(***************************************************************************)
(* update_product_mix_graph                                                *)
(***************************************************************************)
\* The query: array_agg(distinct(product)) GROUP BY act.organization_id.
ProductMixQuery(wh) ==
    LET usage == {u \in wh : u.kind = "usage"}
        orgs == SetToSeq({u.org : u \in usage})
    IN  [i \in DOMAIN orgs |->
            [products |-> {u.product : u \in {v \in usage : v.org = orgs[i]}}]]

\* "+".join(sorted(list(set([p for p in products if p in PRODUCT_LIST])))):
\* the string is the sequence of the joined names, "" is << >>
JoinedMix(products) == SortedNames(products \cap Listed)

\* Counter(l) of mix strings, in the order of first occurrence
MixCounter(l) ==
    LET ks == FirstOccurrences(l, {})
    IN  [i \in DOMAIN ks |->
            Item(ks[i], Cardinality({j \in DOMAIN l : l[j] = ks[i]}))]

update_product_mix_graph(wh, start_date, end_date) ==
    IF ParseFails(start_date) \/ ParseFails(end_date)
    THEN Raise("ValueError")
    ELSE LET product_mixes == ProductMixQuery(wh)
             pre_selection == [i \in DOMAIN product_mixes |->
                                  JoinedMix(product_mixes[i].products)]
             counter == MixCounter(pre_selection)
             queries == << [start_date |-> fromisoformat(start_date),
                            end_date |-> fromisoformat(end_date)] >>
         IN
         \* counter.pop("")
         IF << >> \notin DictKeys(counter)
         THEN [exc |-> "KeyError", queries |-> queries]
         ELSE LET popped == SelectSeq(counter, LAMBDA item : item.key # << >>)
                  most_common == SortByCountDesc(popped)
              IN
         \* mixes, counts = zip(*counter.most_common(), strict=False)
         IF most_common = << >>
         THEN [exc |-> "ValueError", queries |-> queries]
         ELSE [exc |-> "none",
               queries |-> queries,
               shown |-> TRUE,
               x |-> ValueList(most_common),
               y |-> KeyList(most_common)]

(***************************************************************************)
(* The session                                                             *)
(***************************************************************************)
VARIABLES
    page,                 \* the dashboard shown: "home" or "usage"
    warehouse,            \* the records the queries read
    start_date,           \* date picker: start_date (ISO string)
    end_date,             \* date picker: end_date (ISO string)
    pending,              \* callbacks Dash still has to run for the last input change
    triggered,            \* callback_context.triggered of those callbacks
    outcome,              \* callback -> exception and queries of its last run
    new_trials_graph,     \* home-new-trials-graph.figure
    errors_graph,         \* home-errors-graph.figure
    fail_click_data,      \* home-errors-graph.clickData
    errors_table,         \* home-errors-table data and heading
    errors_period_graph,  \* home-errors-period-graph figure and heading
    products_graph,       \* free-trials-products-products-graph.figure
    product_click_data,   \* free-trials-products-products-graph.clickData
    products_table,       \* free-trials-products-products-table data and heading
    activity_graph,       \* free-trials-products-activities-graph.figure
    activities_by_products_graph,
                          \* free-trials-products-activities-by-products.figure
    product_mix_graph     \* free-trials-products-product-mix.figure

homeOutputs == << new_trials_graph, errors_graph, fail_click_data,
                  errors_table, errors_period_graph >>

usageGraphs ==
    << activity_graph, activities_by_products_graph, product_mix_graph >>

usageOutputs ==
    << products_graph, product_click_data, products_table, usageGraphs >>

session == << module_level, page, warehouse, start_date, end_date, triggered >>

vars == << session, pending, outcome, homeOutputs, usageOutputs >>

\* the callbacks of the Home page with the date picker as an Input
HomeDateCallbacks ==
    {"update_new_trials_graph", "update_errors_graph",
     "display_errors_click_data_graph"}

\* the callbacks with home-errors-graph.clickData as an Input
ErrorsClickCallbacks ==
    {"display_errors_click_data", "display_errors_click_data_graph"}

HomeCallbacks == HomeDateCallbacks \cup ErrorsClickCallbacks

\* the callbacks of the product usage page with the date picker as an Input
UsageDateCallbacks ==
    {"update_product_graph", "display_product_usage_click_data",
     "update_activity_graph", "update_activities_by_products_graph",
     "update_product_mix_graph"}

\* the callbacks with free-trials-products-products-graph.clickData as an Input
ProductsClickCallbacks == {"display_product_usage_click_data"}

UsageCallbacks == UsageDateCallbacks \cup ProductsClickCallbacks

Callbacks == HomeCallbacks \cup UsageCallbacks

\* Dash runs the callbacks of one input change one after the other, here in
\* the order of their definition in the source files.
SourceOrder ==
    << "update_new_trials_graph", "update_errors_graph",
       "display_errors_click_data", "display_errors_click_data_graph",
       "update_product_graph", "display_product_usage_click_data",
       "update_activity_graph", "update_activities_by_products_graph",
       "update_product_mix_graph" >>

Position(c) == CHOOSE i \in DOMAIN SourceOrder : SourceOrder[i] = c

\* outcome when the callbacks of batch are about to run
Dispatched(batch) ==
    [c \in Callbacks |->
        [exc |-> IF c \in batch THEN "pending" ELSE "idle", queries |-> << >>]]

\* the ranges the date picker can deliver within the days D:
\* start_date <= end_date
Ranges(D) == {r \in D \X D : r[1] <= r[2]}

DateRanges == Ranges(Days)

EmptyTable == [data |-> << >>, heading |-> << >>]

\* A page as get_layout() builds it: no figure, no clickData, empty
\* headings.  Dash then calls every callback of the page once with nothing
\* triggered.
FreshPage(p, wh, callbacks, ranges) ==
    /\ module_level = Imported
    /\ page = p
    /\ warehouse = wh
    /\ \E r \in ranges :
          start_date = IsoDate(r[1]) /\ end_date = IsoDate(r[2])
    /\ pending = callbacks
    /\ triggered = << >>
    /\ outcome = Dispatched(callbacks)
    /\ new_trials_graph = NoFigure
    /\ errors_graph = NoFigure
    /\ fail_click_data = NoClick
    /\ errors_table = EmptyTable
    /\ errors_period_graph = EmptyPeriodGraph
    /\ products_graph = NoFigure
    /\ product_click_data = NoClick
    /\ products_table = EmptyTable
    /\ activity_graph = NoFigure
    /\ activities_by_products_graph = NoFigure
    /\ product_mix_graph = NoFigure

InitHome ==
    \E wh \in SetsUpTo(HomeRecords, MaxRecords) :
        FreshPage("home", wh, HomeCallbacks, DateRanges)

\* a session reads the usage records of one organization
InitUsage ==
    \E wh \in SetsUpTo({r \in UsageRecords : r.org = "org1"}, MaxRecords) :
        FreshPage("usage", wh, UsageCallbacks, DateRanges)

Init == InitHome \/ InitUsage

\* the callback c is the next of the batch in the order of the source files
InTurn(c) == c \in pending /\ \A o \in pending : Position(c) <= Position(o)

\* the pending callback c ends as res says
Ends(c, res) ==
    /\ c \in pending
    /\ pending' = pending \ {c}
    /\ outcome' = [outcome EXCEPT
                      ![c] = [exc |-> res.exc, queries |-> res.queries]]

\* the pending callback c runs and ends as res says: no callback assigns to
\* a module-level name, to an Input or to the row source
Finish(c, res) == Ends(c, res) /\ UNCHANGED session

\* an input of the page changes: Dash dispatches the callbacks that have it
\* as an Input
Dispatch(batch, trigger) ==
    /\ pending = {}
    /\ pending' = batch
    /\ outcome' = Dispatched(batch)
    /\ triggered' = trigger

(***************************************************************************)
(* The user                                                                *)
(***************************************************************************)
\* The user picks another date range.
PickDates ==
    /\ \E r \in DateRanges :
          /\ << IsoDate(r[1]), IsoDate(r[2]) >> # << start_date, end_date >>
          /\ start_date' = IsoDate(r[1])
          /\ end_date' = IsoDate(r[2])
    /\ IF page = "home"
       THEN Dispatch(HomeDateCallbacks, DateTrigger(HomeDatePicker))
       ELSE Dispatch(UsageDateCallbacks, DateTrigger(UsageDatePicker))
    /\ UNCHANGED << module_level, page, warehouse, homeOutputs, usageOutputs >>

\* The date picker delivers a start_date or an end_date that is not an ISO
\* date.
PickMalformedDates ==
    /\ ~ParseFails(start_date) /\ ~ParseFails(end_date)
    /\ \/ start_date' = BadIso /\ end_date' = end_date
       \/ start_date' = start_date /\ end_date' = BadIso
    /\ IF page = "home"
       THEN Dispatch(HomeDateCallbacks, DateTrigger(HomeDatePicker))
       ELSE Dispatch(UsageDateCallbacks, DateTrigger(UsageDatePicker))
    /\ UNCHANGED << module_level, page, warehouse, homeOutputs, usageOutputs >>

\* The user clicks a bar of the error overview graph.
ClickErrorsBar ==
    /\ page = "home"
    /\ errors_graph.shown
    /\ \E i \in DOMAIN errors_graph.bars :
          fail_click_data' = PointsClick(<< errors_graph.bars[i] >>)
    /\ Dispatch(ErrorsClickCallbacks, ClickTrigger(ErrorsGraphId))
    /\ UNCHANGED << module_level, page, warehouse, start_date, end_date,
                    new_trials_graph,
                    errors_graph, errors_table, errors_period_graph,
                    usageOutputs >>

\* The error overview graph reports a click event that selects nothing.
ClickNothingOnErrors ==
    /\ page = "home"
    /\ errors_graph.shown
    /\ fail_click_data' \in {PointsClick(<< >>), NoPointsClick,
                           EmptyDictClick}
    /\ Dispatch(ErrorsClickCallbacks, ClickTrigger(ErrorsGraphId))
    /\ UNCHANGED << module_level, page, warehouse, start_date, end_date,
                    new_trials_graph,
                    errors_graph, errors_table, errors_period_graph,
                    usageOutputs >>

\* The trial days whose segments the user clicks: the first day, the last
\* day and a day in between (no usage record falls on the days in between).
ClickedDays == {1, 2, TrialDays}

\* The user clicks the bar segment of a product on a trial day; the point
\* of the event carries the value of the segment or no value.
ClickProductBar ==
    /\ page = "usage"
    /\ products_graph.shown
    /\ \E t \in DOMAIN products_graph.traces, d \in ClickedDays :
          LET point == BarPoint(products_graph.traces[t], d)
          IN  product_click_data' \in
                  {PointsClick(<< point >>),
                   PointsClick(<< [point EXCEPT !.y = None] >>)}
    /\ Dispatch(ProductsClickCallbacks, ClickTrigger(ProductsGraphId))
    /\ UNCHANGED << module_level, page, warehouse, start_date, end_date,
                    homeOutputs,
                    products_graph, products_table, usageGraphs >>

\* The product usage graph reports a click event that selects nothing.
ClickNothingOnProducts ==
    /\ page = "usage"
    /\ products_graph.shown
    /\ product_click_data' \in {PointsClick(<< >>), NoPointsClick,
                             EmptyDictClick}
    /\ Dispatch(ProductsClickCallbacks, ClickTrigger(ProductsGraphId))
    /\ UNCHANGED << module_level, page, warehouse, start_date, end_date,
                    homeOutputs,
                    products_graph, products_table, usageGraphs >>

(***************************************************************************)
(* The callbacks.  A callback that raises leaves its Outputs as they are.  *)
(* Invoke.. is the invocation of a pending callback, Run.. the invocation  *)
(* of the callback whose turn it is.                                       *)
(***************************************************************************)
InvokeUpdateNewTrialsGraph ==
    LET res == update_new_trials_graph(warehouse, start_date, end_date)
    IN  /\ Finish("update_new_trials_graph", res)
        /\ new_trials_graph' =
              IF res.exc = "none" THEN res ELSE new_trials_graph
        /\ UNCHANGED << errors_graph, fail_click_data, errors_table,
                        errors_period_graph, usageOutputs >>

RunUpdateNewTrialsGraph ==
    InTurn("update_new_trials_graph") /\ InvokeUpdateNewTrialsGraph

InvokeUpdateErrorsGraph ==
    LET res == update_errors_graph(warehouse, start_date, end_date)
    IN  /\ Finish("update_errors_graph", res)
        /\ errors_graph' = IF res.exc = "none" THEN res ELSE errors_graph
        /\ UNCHANGED << new_trials_graph, fail_click_data, errors_table,
                        errors_period_graph, usageOutputs >>

RunUpdateErrorsGraph ==
    InTurn("update_errors_graph") /\ InvokeUpdateErrorsGraph

InvokeDisplayErrorsClickData ==
    LET res == display_errors_click_data(fail_click_data, triggered)
    IN  /\ Finish("display_errors_click_data", res)
        /\ errors_table' =
              IF res.exc = "none"
              THEN [data |-> res.data, heading |-> res.heading]
              ELSE errors_table
        /\ UNCHANGED << new_trials_graph, errors_graph, fail_click_data,
                        errors_period_graph, usageOutputs >>

RunDisplayErrorsClickData ==
    InTurn("display_errors_click_data") /\ InvokeDisplayErrorsClickData

InvokeDisplayErrorsClickDataGraph ==
    LET res == display_errors_click_data_graph(fail_click_data, start_date,
                                               end_date, triggered)
    IN  /\ Finish("display_errors_click_data_graph", res)
        /\ errors_period_graph' =
              IF res.exc = "none" THEN res ELSE errors_period_graph
        /\ UNCHANGED << new_trials_graph, errors_graph, fail_click_data,
                        errors_table, usageOutputs >>

RunDisplayErrorsClickDataGraph ==
    InTurn("display_errors_click_data_graph") /\ InvokeDisplayErrorsClickDataGraph

\* the labels are looked up with PRODUCT_LABELS.setdefault(product, product)
InvokeUpdateProductGraph_RegisteringLabels ==
    LET res == update_product_graph(warehouse, start_date, end_date)
        labels == module_level.product_usage.PRODUCT_LABELS
        seen == IF res.exc # "none" THEN {}
                ELSE {res.traces[i].legendgroup : i \in DOMAIN res.traces}
    IN  /\ Ends("update_product_graph", res)
        /\ products_graph' = IF res.exc = "none" THEN res ELSE products_graph
        /\ module_level' =
              [module_level EXCEPT !.product_usage.PRODUCT_LABELS =
                  [p \in DOMAIN labels \cup seen |->
                      IF p \in DOMAIN labels THEN labels[p] ELSE p]]
        /\ UNCHANGED << page, warehouse, start_date, end_date, triggered,
                        homeOutputs, product_click_data, products_table,
                        usageGraphs >>

InvokeUpdateProductGraph ==
    LET res == update_product_graph(warehouse, start_date, end_date)
    IN  /\ Finish("update_product_graph", res)
        /\ products_graph' = IF res.exc = "none" THEN res ELSE products_graph
        /\ UNCHANGED << homeOutputs, product_click_data, products_table,
                        usageGraphs >>

RunUpdateProductGraph ==
    InTurn("update_product_graph") /\ InvokeUpdateProductGraph

\* the callback takes the points out of the click event it resolves:
\* click_data.pop("points")
InvokeDisplayProductUsageClickData_ConsumingClick ==
    LET res == display_product_usage_click_data(warehouse, product_click_data,
                   start_date, end_date, triggered)
    IN  /\ Finish("display_product_usage_click_data", res)
        /\ products_table' =
              IF res.exc = "none"
              THEN [data |-> res.data, heading |-> res.heading]
              ELSE products_table
        /\ product_click_data' =
              IF res.exc = "none" /\ res.data # << >>
              THEN EmptyDictClick
              ELSE product_click_data
        /\ UNCHANGED << homeOutputs, products_graph, usageGraphs >>

InvokeDisplayProductUsageClickData ==
    LET res == display_product_usage_click_data(warehouse, product_click_data,
                   start_date, end_date, triggered)
    IN  /\ Finish("display_product_usage_click_data", res)
        /\ products_table' =
              IF res.exc = "none"
              THEN [data |-> res.data, heading |-> res.heading]
              ELSE products_table
        /\ UNCHANGED << homeOutputs, products_graph, product_click_data,
                        usageGraphs >>

RunDisplayProductUsageClickData ==
    InTurn("display_product_usage_click_data") /\ InvokeDisplayProductUsageClickData

InvokeUpdateActivityGraph ==
    LET res == update_activity_graph(warehouse, start_date, end_date)
    IN  /\ Finish("update_activity_graph", res)
        /\ activity_graph' = IF res.exc = "none" THEN res ELSE activity_graph
        /\ UNCHANGED << homeOutputs, products_graph, product_click_data,
                        products_table, activities_by_products_graph,
                        product_mix_graph >>

RunUpdateActivityGraph ==
    InTurn("update_activity_graph") /\ InvokeUpdateActivityGraph

InvokeUpdateActivitiesByProductsGraph ==
    LET res == update_activities_by_products_graph(warehouse, start_date,
                                                   end_date)
    IN  /\ Finish("update_activities_by_products_graph", res)
        /\ activities_by_products_graph' =
              IF res.exc = "none" THEN res ELSE activities_by_products_graph
        /\ UNCHANGED << homeOutputs, products_graph, product_click_data,
                        products_table, activity_graph, product_mix_graph >>

RunUpdateActivitiesByProductsGraph ==
    InTurn("update_activities_by_products_graph") /\ InvokeUpdateActivitiesByProductsGraph

InvokeUpdateProductMixGraph ==
    LET res == update_product_mix_graph(warehouse, start_date, end_date)
    IN  /\ Finish("update_product_mix_graph", res)
        /\ product_mix_graph' =
              IF res.exc = "none" THEN res ELSE product_mix_graph
        /\ UNCHANGED << homeOutputs, products_graph, product_click_data,
                        products_table, activity_graph,
                        activities_by_products_graph >>

RunUpdateProductMixGraph ==
    InTurn("update_product_mix_graph") /\ InvokeUpdateProductMixGraph

Next ==
    \/ PickDates
    \/ PickMalformedDates
    \/ ClickErrorsBar
    \/ ClickNothingOnErrors
    \/ ClickProductBar
    \/ ClickNothingOnProducts
    \/ RunUpdateNewTrialsGraph
    \/ RunUpdateErrorsGraph
    \/ RunDisplayErrorsClickData
    \/ RunDisplayErrorsClickDataGraph
    \/ RunUpdateProductGraph
    \/ RunDisplayProductUsageClickData
    \/ RunUpdateActivityGraph
    \/ RunUpdateActivitiesByProductsGraph
    \/ RunUpdateProductMixGraph

\* A dashboard session: any sequence of date picks and clicks.
Spec == Init /\ [][Next]_vars

(***************************************************************************)
(* The sessions of one page: the page never changes within a session, so   *)
(* these are the behaviours of Spec that start on the page.                *)
(***************************************************************************)
NextHomeSession ==
    \/ PickDates
    \/ PickMalformedDates
    \/ ClickErrorsBar
    \/ ClickNothingOnErrors
    \/ RunUpdateNewTrialsGraph
    \/ RunUpdateErrorsGraph
    \/ RunDisplayErrorsClickData
    \/ RunDisplayErrorsClickDataGraph

SpecHomeSession == InitHome /\ [][NextHomeSession]_vars

NextUsageSession ==
    \/ PickDates
    \/ PickMalformedDates
    \/ ClickProductBar
    \/ ClickNothingOnProducts
    \/ RunUpdateProductGraph
    \/ RunDisplayProductUsageClickData
    \/ RunUpdateActivityGraph
    \/ RunUpdateActivitiesByProductsGraph
    \/ RunUpdateProductMixGraph

SpecUsageSession == InitUsage /\ [][NextUsageSession]_vars

(***************************************************************************)
(* A drill-down run of the Home page: the page loads for a date range and  *)
(* the user clicks bars of the error overview graph.                       *)
(***************************************************************************)
InitDrill ==
    \E wh \in SetsUpTo(ErrorRecords(DrillDays), MaxErrors) :
        FreshPage("home", wh, HomeCallbacks, Ranges(DrillDays))

NextDrill ==
    \/ ClickErrorsBar
    \/ RunUpdateNewTrialsGraph
    \/ RunUpdateErrorsGraph
    \/ RunDisplayErrorsClickData
    \/ RunDisplayErrorsClickDataGraph

SpecDrill == InitDrill /\ [][NextDrill]_vars

(***************************************************************************)
(* A load of the product usage page with the usage records of several      *)
(* organizations: Dash calls every callback of the page once.              *)
(***************************************************************************)
\* the usage records of a load: an activity can also lie before the day the
\* trial starts (day_nr < 0)
LoadDayNrs == UsageDayNrs \cup {-1}

LoadUsageRecords ==
    [kind : {"usage"}, day_nr : LoadDayNrs, product : Products, org : Orgs]

InitUsageRun ==
    \E wh \in SetsUpTo(LoadUsageRecords, MaxUsage) :
        FreshPage("usage", wh, UsageCallbacks, DateRanges)

NextUsage ==
    \/ RunUpdateProductGraph
    \/ RunDisplayProductUsageClickData
    \/ RunUpdateActivityGraph
    \/ RunUpdateActivitiesByProductsGraph
    \/ RunUpdateProductMixGraph

SpecUsage == InitUsageRun /\ [][NextUsage]_vars

(***************************************************************************)
(* A session whose callbacks run in any order: Dash serves the requests of *)
(* one input change concurrently, so the callbacks of a batch can finish   *)
(* in every order.  The pages load and the user clicks bars of the error   *)
(* overview graph.                                                         *)
(***************************************************************************)
NextInterleaved ==
    \/ ClickErrorsBar
    \/ InvokeUpdateNewTrialsGraph
    \/ InvokeUpdateErrorsGraph
    \/ InvokeDisplayErrorsClickData
    \/ InvokeDisplayErrorsClickDataGraph
    \/ InvokeUpdateProductGraph
    \/ InvokeDisplayProductUsageClickData
    \/ InvokeUpdateActivityGraph
    \/ InvokeUpdateActivitiesByProductsGraph
    \/ InvokeUpdateProductMixGraph

SpecInterleaved == Init /\ [][NextInterleaved]_vars

(***************************************************************************)
(* Properties                                                              *)
(***************************************************************************)
\* the callback c has run for the last input change
Ran(c) == outcome[c].exc \notin {"pending", "idle"}

\* the figure of the callback c is the one of the picked dates
Fresh(c, figure) ==
    /\ c \notin pending
    /\ figure.shown
    /\ ~ParseFails(start_date)
    /\ ~ParseFails(end_date)

PickedStart == fromisoformat(start_date)

PickedEnd == fromisoformat(end_date)

Min(a, b) == IF a <= b THEN a ELSE b

\* C1: in the errors period graph the two plotted series have the same
\* number of entries after boundary reconciliation, whatever days the rows
\* of the clicked bar fall on.
C1_SeriesEqualLength ==
    errors_period_graph.shown =>
        Len(errors_period_graph.counts_current)
            = Len(errors_period_graph.counts_prev)

\* C2: in the new-trials graph previous_period and current_period, the two
\* halves of the combined query result, have equal length.
C2_SplitEqualLength ==
    new_trials_graph.shown =>
        Len(new_trials_graph.previous_period)
            = Len(new_trials_graph.current_period)

\* C3: for every start_date <= end_date the previous-period start computed by
\* update_new_trials_graph and update_errors_graph is strictly earlier than
\* start_date.
C3_PreviousStartEarlier ==
    /\ Fresh("update_new_trials_graph", new_trials_graph) =>
          new_trials_graph.interval_start_date < PickedStart
    /\ errors_graph.shown =>
          errors_graph.start_date_int < errors_graph.start_date

\* C4: the previous-period start is start_date - ((end_date - start_date)
\* - 1 day), so it lies (end_date - start_date).days - 1 days before
\* start_date, and update_new_trials_graph, update_errors_graph and
\* display_errors_click_data_graph compute the same date for the same range.
C4_SameIntervalStart ==
    LET expected == PickedStart - ((PickedEnd - PickedStart) - 1)
    IN  /\ Fresh("update_new_trials_graph", new_trials_graph) =>
              /\ new_trials_graph.interval_start_date = expected
              /\ PickedStart - new_trials_graph.interval_start_date
                     = (PickedEnd - PickedStart) - 1
        /\ Fresh("update_errors_graph", errors_graph) =>
              errors_graph.start_date_int = expected
        /\ Fresh("display_errors_click_data_graph", errors_period_graph) =>
              errors_period_graph.interval_start = expected
        /\ ( /\ Fresh("update_new_trials_graph", new_trials_graph)
             /\ Fresh("update_errors_graph", errors_graph)
             /\ Fresh("display_errors_click_data_graph", errors_period_graph) )
           => /\ new_trials_graph.interval_start_date
                    = errors_graph.start_date_int
              /\ errors_graph.start_date_int
                    = errors_period_graph.interval_start

\* C4 witness: the three figures are shown for a range of more than one day
\* after a bar click.
C4_Witness ==
    /\ pending = {}
    /\ new_trials_graph.shown
    /\ errors_graph.shown
    /\ errors_period_graph.shown
    /\ PickedEnd - PickedStart >= 2

\* a clickData that selects nothing: None, {}, a dict without "points" or
\* a dict with an empty list of points
SelectsNothing(cd) == cd.points = << >>

\* C5: a click event whose points list is empty or absent is a valid
\* no-selection state: display_product_usage_click_data and
\* display_errors_click_data return ([], "") for it and do not fail, also
\* when the source graph triggered the callback.
C5_EmptyPointsNoSelection ==
    /\ (Ran("display_errors_click_data") /\ SelectsNothing(fail_click_data))
          => /\ outcome["display_errors_click_data"].exc = "none"
             /\ errors_table = EmptyTable
    /\ ( /\ Ran("display_product_usage_click_data")
         /\ SelectsNothing(product_click_data) )
          => /\ outcome["display_product_usage_click_data"].exc = "none"
             /\ products_table = EmptyTable

\* C6: the zero-filled current-period series of
\* display_errors_click_data_graph (before boundary reconciliation) has one
\* entry for every day of [start_date, end_date]:
\* (end_date - start_date).days + 1 entries.
C6_FilledCurrentCoversRange ==
    errors_period_graph.shown =>
        Len(errors_period_graph.filled_current)
            = (PickedEnd - PickedStart) + 1

\* C7: boundary reconciliation removes the earliest entry of the zero-filled
\* current series and makes it the last entry of the previous series with
\* the value it had; no other entry of either series changes.
C7_FirstCurrentMovesToPrevious ==
    errors_period_graph.shown =>
        /\ errors_period_graph.counts_current
              = Tail(errors_period_graph.filled_current)
        /\ errors_period_graph.counts_prev
              = Append(errors_period_graph.filled_prev,
                       errors_period_graph.filled_current[1])

\* the number of days between the i-th plotted days of the two series
Offset(graph, i) == graph.current_trace.text[i] - graph.previous_trace.text[i]

Plotted(graph) ==
    1..Min(Len(graph.current_trace.text), Len(graph.previous_trace.text))

\* C8: in the errors period graph the day of the i-th previous-series entry
\* lies the same number of days before the day of the i-th current-series
\* entry for every i, and that number does not depend on the rows: two bar
\* clicks under the same date range show the same offset.
C8_SameOffsetEverywhere ==
    [][ errors_period_graph'.shown =>
          /\ \A i \in Plotted(errors_period_graph') :
                Offset(errors_period_graph', i) = Offset(errors_period_graph', 1)
          /\ ( /\ errors_period_graph.shown
               /\ start_date' = start_date
               /\ end_date' = end_date
               /\ Plotted(errors_period_graph) # {}
               /\ Plotted(errors_period_graph') # {} )
             => Offset(errors_period_graph', 1) = Offset(errors_period_graph, 1)
      ]_vars

\* the days on which an activity created during the day is fetched by the
\* query of update_errors_graph and flagged v
FlaggedDays(graph, v) ==
    {d \in (graph.start_date_int - 1)..(graph.end_date + 1) :
        LET probe == [day |-> d, midnight |-> FALSE]
        IN  /\ Between(probe, graph.start_date_int, graph.end_date)
            /\ IntervalVar(probe, graph.start_date) = v}

\* C9: in the combined query of update_errors_graph the previous period
\* (interval_var = 0) and the current period (interval_var = 1) are
\* contiguous and cover the same number of days.
C9_PeriodsContiguousEqual ==
    errors_graph.shown =>
        LET prev == FlaggedDays(errors_graph, 0)
            cur == FlaggedDays(errors_graph, 1)
        IN  /\ Cardinality(prev) = Cardinality(cur)
            /\ \A p \in prev, c \in cur : p < c
            /\ \A p \in prev, c \in cur :
                  \A d \in p..c : d \in prev \cup cur

ClickedSegment == product_click_data.points[1]

\* the products graph triggered display_product_usage_click_data with a
\* click on a segment, and the callback has run
SegmentClickResolved ==
    /\ Ran("display_product_usage_click_data")
    /\ TriggeredId(triggered) = Some(ProductsGraphId)
    /\ product_click_data.points # << >>

\* C11: a click on a bar segment whose value y is 0 or missing gives an empty
\* row list and the heading "Product: <label> - Day <day> (no active
\* users)", and display_product_usage_click_data issues no query.
C11_ZeroSegmentNoActiveUsers ==
    (SegmentClickResolved /\ ClickedSegment.y \in {None, Some(0)}) =>
        LET shown == ClickedSegment.customdata[1]
        IN  /\ outcome["display_product_usage_click_data"]
                  = [exc |-> "none", queries |-> << >>]
            /\ products_table
                  = [data |-> << >>,
                     heading |-> << "Product: ", shown[2], " - Day ",
                                    shown[3], " (no active users)" >>]

\* C11 witness: a segment of value 0 was clicked and the heading carries the
\* suffix.
C11_Witness ==
    /\ SegmentClickResolved
    /\ ClickedSegment.y = Some(0)
    /\ products_table.heading # << >>
    /\ products_table.heading[Len(products_table.heading)]
          = " (no active users)"

\* the date picker holds a string that is not an ISO date
Malformed == start_date.fmt = "bad" \/ end_date.fmt = "bad"

\* the callbacks that receive start_date and end_date
DateCallbacks == HomeDateCallbacks \cup UsageDateCallbacks

\* C12 as stated: with a malformed start_date or end_date every callback
\* that receives the dates fails with the parse error, whatever its other
\* inputs are (also on a stale or empty click and on a click with y = 0).
C12_MalformedAlwaysFails ==
    \A c \in DateCallbacks :
        (Ran(c) /\ Malformed) => outcome[c].exc = "ValueError"

\* the error graph triggered display_errors_click_data_graph with a click
\* on a bar, and the callback has run
BarClickResolved ==
    /\ Ran("display_errors_click_data_graph")
    /\ TriggeredId(triggered) = Some(ErrorsGraphId)
    /\ fail_click_data.points # << >>

\* C12 amended: with a malformed start_date or end_date the graph callbacks
\* of the date picker always fail with the parse error; a drill-down
\* callback fails with it exactly when it gets as far as parsing the dates
\* (a click on a bar of the error graph, a click on a products segment with
\* a value other than 0), and on a stale trigger it returns its empty
\* result without a query.
C12_MalformedFailsWhereParsed ==
    Malformed =>
        /\ \A c \in DateCallbacks \ {"display_errors_click_data_graph",
                                     "display_product_usage_click_data"} :
              Ran(c) => outcome[c] = [exc |-> "ValueError", queries |-> << >>]
        /\ Ran("display_errors_click_data_graph") =>
              /\ outcome["display_errors_click_data_graph"].exc = "ValueError"
                    <=> BarClickResolved
              /\ TriggeredId(triggered) # Some(ErrorsGraphId) =>
                    /\ outcome["display_errors_click_data_graph"].exc = "none"
                    /\ errors_period_graph = EmptyPeriodGraph
        /\ Ran("display_product_usage_click_data") =>
              /\ outcome["display_product_usage_click_data"].exc = "ValueError"
                    <=> ( /\ SegmentClickResolved
                          /\ ClickedSegment.y \notin {None, Some(0)} )
              /\ TriggeredId(triggered) # Some(ProductsGraphId) =>
                    /\ outcome["display_product_usage_click_data"].exc = "none"
                    /\ products_table = EmptyTable

\* C12 witness: the dates are malformed and a click on a bar of the error
\* graph made display_errors_click_data_graph fail with the parse error.
C12_Witness ==
    /\ Malformed
    /\ BarClickResolved
    /\ outcome["display_errors_click_data_graph"].exc = "ValueError"

\* the entries of a series are in strictly ascending order of their days
StrictlyAscendingDays(series) ==
    \A i, j \in DOMAIN series :
        i < j => fromisoformat(series[i].key) < fromisoformat(series[j].key)

\* the formats of the keys of a series: "ts" for a day that comes from a
\* row, "date" for a synthesized day
KeyFormats(series) == {series[i].key.fmt : i \in DOMAIN series}

\* C15: both zero-filled series of the errors period graph are strictly
\* ascending by calendar day: no two entries denote the same day and no
\* later entry precedes an earlier one, whatever mix of days from rows and
\* synthesized days they hold.
C15_FilledSeriesAscending ==
    errors_period_graph.shown =>
        /\ StrictlyAscendingDays(errors_period_graph.filled_current)
        /\ StrictlyAscendingDays(errors_period_graph.filled_prev)

\* C15 witness: both zero-filled series mix days from rows with synthesized
\* days.
C15_Witness ==
    /\ errors_period_graph.shown
    /\ KeyFormats(errors_period_graph.filled_current) = {"ts", "date"}
    /\ KeyFormats(errors_period_graph.filled_prev) = {"ts", "date"}

\* C16: the missing-day fill is idempotent: applied over the same window to
\* a series that is its own output it adds no entry and changes no value.
C16_FillIdempotent ==
    errors_period_graph.shown =>
        /\ FillMissing(errors_period_graph.filled_current,
                       PickedStart - 1, PickedEnd)
              = errors_period_graph.filled_current
        /\ FillMissing(errors_period_graph.filled_prev,
                       errors_period_graph.interval_start, PickedStart)
              = errors_period_graph.filled_prev

\* C16 witness: a graph whose current series got synthesized days next to a
\* day from a row.
C16_Witness ==
    /\ errors_period_graph.shown
    /\ KeyFormats(errors_period_graph.filled_current) = {"ts", "date"}
    /\ Len(errors_period_graph.filled_current) >= 3

\* the bar of the last click on the error graph
ClickedBar == fail_click_data.points[1]

\* the error graph triggered display_errors_click_data with a click on a
\* bar, and the callback has run
BarClickTabled ==
    /\ Ran("display_errors_click_data")
    /\ PropId(ErrorsGraphId, "clickData") \in TriggeredPropIds(triggered)
    /\ fail_click_data.points # << >>

\* the error records of the clicked error name in the current period of the
\* error graph
ClickedCurrentRecords ==
    {r \in warehouse :
        /\ r.kind = "error"
        /\ r.activity = ClickedBar.y
        /\ Between(r, errors_graph.start_date_int, errors_graph.end_date)
        /\ After(r, errors_graph.start_date)}

\* C17: the table of display_errors_click_data holds exactly the rows of the
\* clicked bar that belong to the clicked error name and to the current
\* period (interval_var = 1), no previous-period row and no row of another
\* error name, and the heading is "Error: <clicked error name>".
C17_TableOfClickedError ==
    BarClickTabled =>
        /\ outcome["display_errors_click_data"].exc = "none"
        /\ errors_table.heading = << "Error: ", ClickedBar.y >>
        /\ errors_table.data
              = SelectSeq(ClickedBar.customdata,
                          LAMBDA act : /\ act.activity = ClickedBar.y
                                       /\ act.interval_var = Some(1))
        /\ \A i \in DOMAIN errors_table.data :
              /\ errors_table.data[i].activity = ClickedBar.y
              /\ errors_table.data[i].interval_var = Some(1)
        /\ Len(errors_table.data) = Cardinality(ClickedCurrentRecords)

\* C17 witness: the clicked bar carries a previous-period row next to its
\* current-period rows, and the table shows fewer rows than the bar carries.
C17_Witness ==
    /\ BarClickTabled
    /\ \E i \in DOMAIN ClickedBar.customdata :
          ClickedBar.customdata[i].interval_var = Some(0)
    /\ errors_table.data # << >>
    /\ Len(errors_table.data) < Len(ClickedBar.customdata)

\* the days of the rows of a series of the new-trials graph
SeriesDays(rows) == [i \in DOMAIN rows |-> rows[i].day]

\* C20: in the new-trials graph the current-period series obtained from the
\* split holds exactly the days start_date..end_date inclusive, one entry
\* per day, for every start_date <= end_date.
C20_CurrentPeriodIsPickedRange ==
    Fresh("update_new_trials_graph", new_trials_graph) =>
        SeriesDays(new_trials_graph.current_period)
            = [i \in 1..(PickedEnd - PickedStart + 1) |-> PickedStart + (i - 1)]

\* the callbacks that return a figure
GraphCallbacks ==
    {"update_new_trials_graph", "update_errors_graph", "update_product_graph",
     "update_activity_graph", "update_activities_by_products_graph",
     "update_product_mix_graph"}

\* C13: every graph callback returns a figure without raising when the row
\* source returns an empty sequence or only zero values; update_product_mix_graph,
\* update_product_graph, update_activity_graph,
\* update_activities_by_products_graph and update_new_trials_graph give an
\* empty or flat chart.
C13_EmptySourceGivesFigure ==
    (warehouse = {} /\ ~Malformed) =>
        \A c \in GraphCallbacks : Ran(c) => outcome[c].exc = "none"

\* the usage records of a product on a trial day (day_nr counts from 0, the
\* trial days from 1)
UsageOn(product, day) ==
    {u \in warehouse :
        u.kind = "usage" /\ u.product = product /\ u.day_nr = day - 1}

\* C14: in the product usage graph and the activity graph every trace has
\* exactly 14 y values, one for each trial day 1..14 in ascending order; the
\* value of a day is the act_count of the fetched row of that (product or
\* activity, day) and 0 when there is no such row.
C14_FourteenDailyValues ==
    /\ ("update_product_graph" \notin pending /\ products_graph.shown) =>
          \A t \in DOMAIN products_graph.traces :
              LET trace == products_graph.traces[t]
              IN  /\ trace.x = [d \in 1..14 |-> d]
                  /\ DOMAIN trace.y = 1..14
                  /\ \A d \in 1..14 :
                        trace.y[d]
                            = Cardinality(UsageOn(trace.legendgroup, d))
    /\ ("update_activity_graph" \notin pending /\ activity_graph.shown) =>
          \A t \in DOMAIN activity_graph.traces :
              LET trace == activity_graph.traces[t]
              IN  /\ trace.x = [d \in 1..14 |-> d]
                  /\ DOMAIN trace.y = 1..14
                  /\ \A d \in 1..14 :
                        trace.y[d]
                            = Cardinality(UsageOn(SplitPart(trace.name), d))

\* C14 witness: both graphs are shown and a trace of each has a value on
\* trial day 14 and 0 on trial day 2.
C14_Witness ==
    /\ pending = {}
    /\ products_graph.shown
    /\ activity_graph.shown
    /\ \E t \in DOMAIN products_graph.traces :
          /\ products_graph.traces[t].y[14] > 0
          /\ products_graph.traces[t].y[2] = 0
    /\ \E t \in DOMAIN activity_graph.traces :
          /\ activity_graph.traces[t].y[14] > 0
          /\ activity_graph.traces[t].y[2] = 0

\* the drill-down callbacks: they resolve a click on a bar into rows
DrillDownCallbacks ==
    {"display_errors_click_data", "display_errors_click_data_graph",
     "display_product_usage_click_data"}

\* what an invocation of the callback c returns for the row source wh, the
\* dates start and end, the click events on the two graphs and the trigger
Call(c, wh, start, end, fail_click, product_click, trigger) ==
    CASE c = "update_new_trials_graph" ->
             update_new_trials_graph(wh, start, end)
      [] c = "update_errors_graph" -> update_errors_graph(wh, start, end)
      [] c = "display_errors_click_data" ->
             display_errors_click_data(fail_click, trigger)
      [] c = "display_errors_click_data_graph" ->
             display_errors_click_data_graph(fail_click, start, end, trigger)
      [] c = "update_product_graph" -> update_product_graph(wh, start, end)
      [] c = "display_product_usage_click_data" ->
             display_product_usage_click_data(wh, product_click, start, end,
                                              trigger)
      [] c = "update_activity_graph" -> update_activity_graph(wh, start, end)
      [] c = "update_activities_by_products_graph" ->
             update_activities_by_products_graph(wh, start, end)
      [] c = "update_product_mix_graph" ->
             update_product_mix_graph(wh, start, end)

\* what an invocation of the callback c returns in the present state
Returns(c) ==
    Call(c, warehouse, start_date, end_date, fail_click_data,
         product_click_data, triggered)

\* the Outputs of the callback c as the page holds them
OutputOf(c) ==
    CASE c = "update_new_trials_graph" -> new_trials_graph
      [] c = "update_errors_graph" -> errors_graph
      [] c = "display_errors_click_data" -> errors_table
      [] c = "display_errors_click_data_graph" -> errors_period_graph
      [] c = "update_product_graph" -> products_graph
      [] c = "display_product_usage_click_data" -> products_table
      [] c = "update_activity_graph" -> activity_graph
      [] c = "update_activities_by_products_graph" ->
             activities_by_products_graph
      [] c = "update_product_mix_graph" -> product_mix_graph

\* the Outputs of c after an invocation that returned res while the page
\* held the value held
Deliver(c, res, held) ==
    IF res.exc # "none" THEN held
    ELSE IF c \in {"display_errors_click_data",
                   "display_product_usage_click_data"}
         THEN [data |-> res.data, heading |-> res.heading]
         ELSE res

\* the step is an invocation of the callback c
Invoked(c) == c \in pending /\ c \notin pending'

C19_CallbacksIndependent ==
    [][/\ module_level' = Imported
       /\ \A c \in Callbacks :
             Invoked(c) =>
                 /\ OutputOf(c)' = Deliver(c, Returns(c), OutputOf(c))
                 /\ \A o \in Callbacks \ {c} : OutputOf(o)' = OutputOf(o)
                 /\ UNCHANGED << fail_click_data, product_click_data,
                                 session >>]_vars

\* the two callbacks of a bar click run against the order of the source
\* files: the period graph is drawn while the table is still to come
C19_Witness ==
    /\ "display_errors_click_data" \in pending
    /\ Ran("display_errors_click_data_graph")
    /\ errors_period_graph.shown

\* C21: the split of the combined new-trials result partitions it: every
\* fetched day row belongs to exactly one of previous_period and
\* current_period, so the two slices one after the other are the fetched rows.
C21_SplitPartitions ==
    new_trials_graph.shown =>
        new_trials_graph.previous_period \o new_trials_graph.current_period
            = new_trials_graph.new_trials

\* the callbacks of the last input change have run and none of them raised
Settled ==
    /\ pending = {}
    /\ \A c \in Callbacks : outcome[c].exc \in {"none", "idle"}

\* C22: after any sequence of bar clicks and date-range changes on the Home
\* dashboard, once the callbacks of the last input change have run, the
\* errors detail table and the errors period graph show the same selection:
\* their headings are equal (both "Error: <name>" for the same name, or both
\* empty).
C22_HeadingsAgree ==
    (page = "home" /\ Settled /\ ~Malformed) =>
        errors_table.heading = errors_period_graph.heading

\* the rows attached to the clicked bar that belong to a period
PeriodRowsOfClickedBar ==
    SelectSeq(ClickedBar.customdata,
              LAMBDA act : act.interval_var \in {Some(0), Some(1)})

\* C23: in the errors period graph no error row is lost or counted twice:
\* the values of the final previous series and of the final current series
\* add up to the number of rows attached to the clicked bar.
C23_RowsConserved ==
    (BarClickResolved /\ outcome["display_errors_click_data_graph"].exc = "none") =>
        Sum(ValueList(errors_period_graph.counts_prev))
            + Sum(ValueList(errors_period_graph.counts_current))
          = Len(PeriodRowsOfClickedBar)

\* the usage records behind the bar of a product at a displayed day
RecordsOfBar(product, day) ==
    {r \in warehouse :
        r.kind = "usage" /\ r.product = product /\ r.day_nr = day - 1}

\* C24: the day shown in the product usage graph and the day used by its
\* drill-down round-trip: the bar at displayed day d comes from the fetched
\* rows with day_nr = d - 1, and a click on it with y > 0 issues exactly one
\* query with the clicked product and day_nr = d - 1 and returns its rows
\* with the heading "Product: <label> - Day d".
C24_DayRoundTrip ==
    (/\ SegmentClickResolved
     /\ outcome["display_product_usage_click_data"].exc = "none"
     /\ ClickedSegment.y \notin {None, Some(0)}) =>
        LET product == ClickedSegment.customdata[1][1]
            label == ClickedSegment.customdata[1][2]
            d == ClickedSegment.x[1]
        IN  /\ d \in 1..TrialDays
            /\ ClickedSegment.y = Some(Cardinality(RecordsOfBar(product, d)))
            /\ label = IF product \in DOMAIN PRODUCT_LABELS
                       THEN PRODUCT_LABELS[product] ELSE product
            /\ outcome["display_product_usage_click_data"].queries
                  = << [product_name |-> product, day_nr |-> d - 1] >>
            /\ products_table.heading = << "Product: ", label, " - Day ", d >>
            /\ {row.org_name : row \in SeqToSet(products_table.data)}
                  = {r.org : r \in RecordsOfBar(product, d)}
            /\ \A i \in DOMAIN products_table.data :
                  products_table.data[i].user_count
                      = Cardinality({r \in RecordsOfBar(product, d) :
                                        r.org = products_table.data[i].org_name})

\* a click on a segment of the last trial day was resolved into rows
C24_Witness ==
    /\ SegmentClickResolved
    /\ outcome["display_product_usage_click_data"].exc = "none"
    /\ ClickedSegment.y \notin {None, Some(0)}
    /\ ClickedSegment.x = Some(TrialDays)
    /\ products_table.data # << >>
    /\ products_table.heading[4] = TrialDays

\* the error records of the current period of the error graph
CurrentErrorRecords ==
    {r \in warehouse :
        /\ r.kind = "error"
        /\ Between(r, errors_graph.start_date_int, errors_graph.end_date)
        /\ After(r, errors_graph.start_date)}

\* C25: in the errors overview graph there is one bar per error name that
\* has at least one current-period row, its value is the number of such
\* rows, and that value equals the number of rows display_errors_click_data
\* returns when the bar is clicked; error names with only previous-period
\* rows and the empty name of days without errors get no bar.
C25_BarPerCurrentError ==
    Fresh("update_errors_graph", errors_graph) =>
        LET bars == errors_graph.bars
        IN  /\ {bars[i].y : i \in DOMAIN bars}
                  = {r.activity : r \in CurrentErrorRecords}
            /\ Len(bars) = Cardinality({r.activity : r \in CurrentErrorRecords})
            /\ \A i \in DOMAIN bars :
                  /\ bars[i].x = Cardinality({r \in CurrentErrorRecords :
                                                 r.activity = bars[i].y})
                  /\ LET table == display_errors_click_data(
                                      PointsClick(<< bars[i] >>),
                                      ClickTrigger(ErrorsGraphId))
                     IN  table.exc = "none" /\ Len(table.data) = bars[i].x

\* the error graph shows a bar while another error name has rows in the
\* previous period only
C25_Witness ==
    /\ Fresh("update_errors_graph", errors_graph)
    /\ errors_graph.bars # << >>
    /\ \E r \in warehouse :
          /\ r.kind = "error"
          /\ Between(r, errors_graph.start_date_int, errors_graph.end_date)
          /\ \A i \in DOMAIN errors_graph.bars :
                errors_graph.bars[i].y # r.activity

\* C26: update_product_graph and update_activity_graph leave the records
\* returned by the row source unchanged: after the call every fetched record
\* still has the day_nr it was fetched with.
C26_FetchedRecordsUnchanged ==
    /\ products_graph.shown => products_graph.records = products_graph.fetched
    /\ activity_graph.shown => activity_graph.records = activity_graph.fetched

\* the organizations with a usage record
UsingOrgs == {r.org : r \in {u \in warehouse : u.kind = "usage"}}

\* the product mix of an organization: its products of PRODUCT_LIST, sorted
\* and without duplicates
MixOf(org) ==
    SortedNames({r.product : r \in {u \in warehouse :
        u.kind = "usage" /\ u.org = org /\ u.product \in SeqToSet(PRODUCT_LIST)}})

\* C27: whenever at least one organization uses a product of PRODUCT_LIST,
\* update_product_mix_graph returns a chart with one bar per distinct product
\* mix, ordered by descending count, whose counts sum to the number of
\* organizations that use at least one product of PRODUCT_LIST;
\* organizations using none are left out.
C27_ProductMixChart ==
    (/\ Ran("update_product_mix_graph")
     /\ ~Malformed
     /\ \E org \in UsingOrgs : MixOf(org) # << >>) =>
        LET mixed == {org \in UsingOrgs : MixOf(org) # << >>}
            fig == product_mix_graph
        IN  /\ outcome["update_product_mix_graph"].exc = "none"
            /\ fig.shown
            /\ Len(fig.y) = Cardinality({MixOf(org) : org \in mixed})
            /\ SeqToSet(fig.y) = {MixOf(org) : org \in mixed}
            /\ \A i \in DOMAIN fig.y :
                  fig.x[i] = Cardinality({org \in mixed : MixOf(org) = fig.y[i]})
            /\ \A i, j \in DOMAIN fig.x : i < j => fig.x[i] >= fig.x[j]
            /\ Sum(fig.x) = Cardinality(mixed)

\* the usage records of a set of products
UsageOf(products) ==
    {r \in warehouse : r.kind = "usage" /\ r.product \in products}

\* C28: update_activities_by_products_graph conserves the total: the bars
\* are the fetched products that are in PRODUCT_LIST plus exactly one
\* "OTHER" bar (present also when its sum is 0) holding the sum of all
\* remaining products' counts, the bars are ordered by ascending count, and
\* the bar values add up to the sum of product_count over all fetched rows.
C28_OtherConservesTotal ==
    Fresh("update_activities_by_products_graph",
          activities_by_products_graph) =>
        LET fig == activities_by_products_graph
            listed == {r.product : r \in UsageOf(SeqToSet(PRODUCT_LIST))}
        IN  /\ SeqToSet(fig.y) = listed \cup {"OTHER"}
            /\ Len(fig.y) = Cardinality(listed) + 1
            /\ Len(fig.x) = Len(fig.y)
            /\ \A i \in DOMAIN fig.y :
                  fig.x[i] = IF fig.y[i] = "OTHER"
                             THEN Cardinality(UsageOf(Products \ listed))
                             ELSE Cardinality(UsageOf({fig.y[i]}))
            /\ \A i, j \in DOMAIN fig.x : i < j => fig.x[i] <= fig.x[j]
            /\ Sum(fig.x) = Cardinality(UsageOf(Products))

\* every activity belongs to a product of PRODUCT_LIST: the "OTHER" bar is
\* drawn with the value 0 before the bar of the product
C28_Witness ==
    /\ Fresh("update_activities_by_products_graph",
             activities_by_products_graph)
    /\ Len(activities_by_products_graph.y) = 2
    /\ activities_by_products_graph.y[1] = "OTHER"
    /\ activities_by_products_graph.x[1] = 0
    /\ activities_by_products_graph.x[2] > 1

\* the usage records of a product with a day_nr in days
UsageWithin(product, days) ==
    {r \in warehouse :
        r.kind = "usage" /\ r.product = product /\ r.day_nr \in days}

\* C29: in the product usage graph there is one trace per distinct product
\* among the fetched rows with day_nr < 14, the traces are ordered by product
\* name, and the 14 values of a trace add up to the act_count of that
\* product's fetched rows with 0 <= day_nr <= 13; rows with day_nr >= 14 or
\* day_nr < 0 contribute to no bar.
C29_TracePerProduct ==
    Fresh("update_product_graph", products_graph) =>
        LET traces == products_graph.traces
            plotted == {r.product : r \in {u \in warehouse :
                           u.kind = "usage" /\ u.day_nr < TrialDays}}
        IN  /\ [i \in DOMAIN traces |-> traces[i].legendgroup]
                  = SortedNames(plotted)
            /\ \A i \in DOMAIN traces :
                  /\ Len(traces[i].y) = TrialDays
                  /\ Sum(traces[i].y)
                        = Cardinality(UsageWithin(traces[i].legendgroup,
                                                  0..(TrialDays - 1)))

\* a product whose only activity lies before the trial has a trace without
\* a bar, and the product of an activity on day_nr 14 has no trace
C29_Witness ==
    /\ Fresh("update_product_graph", products_graph)
    /\ Len(products_graph.traces) = 1
    /\ Sum(products_graph.traces[1].y) = 0
    /\ \E r \in warehouse : r.day_nr = TrialDays
    /\ \E r \in warehouse : r.day_nr < 0

\* C30: in the new-trials graph the previous-period value plotted at the
\* i-th current-period day belongs to the day exactly
\* (end_date - start_date).days days earlier, for every index i that is
\* plotted (the previous values are drawn over the days of current_period).
C30_PreviousOnePeriodEarlier ==
    Fresh("update_new_trials_graph", new_trials_graph) =>
        LET x == SeriesDays(new_trials_graph.current_period)
            text == SeriesDays(new_trials_graph.previous_period)
        IN  \A i \in 1..Min(Len(x), Len(text)) :
                x[i] - text[i] = PickedEnd - PickedStart

\* a range of more than one day: two previous values are plotted
C30_Witness ==
    /\ Fresh("update_new_trials_graph", new_trials_graph)
    /\ PickedEnd - PickedStart >= 2
    /\ Len(new_trials_graph.current_period) >= 2
    /\ Len(new_trials_graph.previous_period) >= 2

====
